---- MODULE Spec2Model ----
(***************************************************************************)
(* Model of the Throome Python SDK client (sdk/python/src/throome).        *)
(*                                                                         *)
(* The state is the client object (base_url, timeout, session), the number *)
(* of HTTP requests sent, and the record of the last call: its arguments,  *)
(* the requests it issued, what the gateway or the transport answered, and *)
(* what the caller got back.  The scoped clients are immutable handles     *)
(* (client, cluster_id, service_name): a scoped method is a call on any    *)
(* handle the constructors return.  The gateway is the environment: each   *)
(* network call draws the transport outcome (timeout, transport error, or  *)
(* a response) from a small set.                                           *)
(***************************************************************************)
EXTENDS Integers, Sequences, FiniteSets, TLC

VARIABLES client, sent, last

vars == <<client, sent, last>>

(***************************************************************************)
(* Bounds                                                                  *)
(***************************************************************************)
MaxRequests == 2    \* requests sent over one run
MaxRows == 2        \* rows in a db/query response
MaxMsgLen == 2      \* bytes in a published message

(***************************************************************************)
(* Python values                                                           *)
(***************************************************************************)
\* Optional[int]: None, or an int
NoneInt == [none |-> TRUE, v |-> 0]
SomeInt(n) == [none |-> FALSE, v |-> n]
\* Optional[str]: None, or a str
NoneStr == [none |-> TRUE, s |-> ""]
SomeStr(x) == [none |-> FALSE, s |-> x]
\* bool(x) of an Optional[int]: None and 0 are falsy
TruthyInt(o) == ~o.none /\ o.v # 0

\* JSON values as they are put on the wire
JNull == [t |-> "null", s |-> "", n |-> 0]
JStr(x) == [t |-> "str", s |-> x, n |-> 0]
JInt(k) == [t |-> "int", s |-> "", n |-> k]
\* json.dumps of an Optional[str]: None is written as null
JOptStr(o) == IF o.none THEN JNull ELSE JStr(o.s)

(***************************************************************************)
(* Inputs                                                                  *)
(***************************************************************************)
ClusterIds == {"c1"}
ServiceNames == {"s1"}
Keys == {"k"}
Topics == {"t"}
Queries == {"SELECT 1"}
Bytes == {0, 255}
LimitValues == {0, 7}
ExpirationValues == {-1, 0, 60}
TailValues == {5}
OptStrs(x) == {NoneStr, SomeStr(x)}

RECURSIVE SeqsUpTo(_, _)
SeqsUpTo(S, n) ==
    IF n = 0 THEN {<<>>}
    ELSE LET shorter == SeqsUpTo(S, n - 1)
         IN shorter \cup {Append(q, e) : q \in {r \in shorter : Len(r) = n - 1}, e \in S}

\* types.py ServiceConfig
ServiceConfig ==
    [type : {"redis"}, provision : {TRUE}, port : {6379},
     host : OptStrs("h"), username : OptStrs("u"),
     password : OptStrs("p"), database : OptStrs("d")]

\* types.py ActivityFilters, and the absent `filters` argument
NoFilters == [given |-> FALSE, limit |-> NoneInt]
ActivityFilters ==
    {NoFilters} \cup
    {[given |-> TRUE, limit |-> l] : l \in {NoneInt} \cup {SomeInt(n) : n \in LimitValues}}

\* types.py LogOptions, and the absent `options` argument
NoOptions == [given |-> FALSE, tail |-> NoneInt, timestamps |-> FALSE]
LogOptions ==
    {NoOptions} \cup
    {[given |-> TRUE, tail |-> t, timestamps |-> b] :
        t \in {NoneInt} \cup {SomeInt(n) : n \in TailValues}, b \in BOOLEAN}

(***************************************************************************)
(* The gateway and the transport                                           *)
(***************************************************************************)
Statuses == {200, 400}

\* A response body: empty, a JSON object (with the fields in `has`), a JSON
\* array of `len` well-formed items, or text that is not JSON.  "record"
\* stands for the fields of the endpoint's response record.
Body(kind, has, rows, len) == [kind |-> kind, has |-> has, rows |-> rows, len |-> len]
EmptyBody == Body("empty", {}, <<>>, 0)
\* The rows of a db/query response: n distinct rows
RowsOfLen(n) == [i \in 1..n |-> [id |-> i]]
Bodies ==
    {EmptyBody, Body("text", {}, <<>>, 0)}
    \cup {Body("object", h, <<>>, 0) :
            h \in {{}, {"message"}, {"error"}, {"record"}, {"record", "message"}, {"value"}}}
    \cup {Body("object", {"rows"}, RowsOfLen(n), 0) : n \in 0..MaxRows}
    \cup {Body("array", {}, <<>>, 2)}

\* The class of the error response.json() raises on a body that is not JSON:
\* a RequestException subclass in recent versions of the HTTP library, the
\* standard library's ValueError subclass in older ones.
JsonErrors(body) ==
    IF body.kind = "text" THEN {"requests.JSONDecodeError", "json.JSONDecodeError"} ELSE {""}

\* What one HTTP exchange comes to: no response within the timeout, another
\* transport failure, or a response of the gateway
Transport(kind, status, body, json_error) ==
    [kind |-> kind, status |-> status, body |-> body, json_error |-> json_error]
NoTransport == Transport("none", 0, EmptyBody, "")
Transports ==
    {Transport("timeout", 0, EmptyBody, ""), Transport("error", 0, EmptyBody, "")}
    \cup UNION {{Transport("response", s, b, e) : s \in Statuses, e \in JsonErrors(b)} :
                    b \in Bodies}

\* response.content is non-empty
HasContent(body) == body.kind # "empty"
\* response.text
Text(body) ==
    CASE body.kind = "empty" -> ""
      [] body.kind = "text" -> "not json"
      [] body.kind = "array" -> "[..]"
      [] OTHER -> "{..}"

(***************************************************************************)
(* Exceptions and call outcomes                                            *)
(***************************************************************************)
Exc(type, has_status, code, detail) ==
    [type |-> type, has_status |-> has_status, status_code |-> code, detail |-> detail]
NoExc == Exc("", FALSE, 0, "")
\* exceptions.py
ThroomAPIError(code, detail) == Exc("ThroomAPIError", TRUE, code, detail)
ThroomConnectionError(detail) == Exc("ThroomConnectionError", FALSE, 0, detail)
\* builtins
PyError(type) == Exc(type, FALSE, 0, "")

Return(v) == [kind |-> "return", exc |-> NoExc, value |-> v]
Raise(e) == [kind |-> "raise", exc |-> e, value |-> "None"]
PyNone == "None"

\* The exceptions of the HTTP library that derive from RequestException
IsRequestException(type) ==
    type \in {"Timeout", "ConnectionError", "HTTPError", "requests.JSONDecodeError"}

\* response.json(): the parsed value, or the decode error
ResponseJson(t) ==
    IF t.body.kind = "text" THEN Raise(PyError(t.json_error)) ELSE Return(t.body)

(***************************************************************************)
(* HTTP requests                                                           *)
(***************************************************************************)
\* An optional dict argument (json=, params=): None, or a dict
NoDict == [none |-> TRUE, d |-> <<>>]
Dict(d) == [none |-> FALSE, d |-> d]

ContentType == "Content-Type"
ApplicationJson == "application/json"

\* dict.update({key: value})
Update(headers, key, value) ==
    [k \in DOMAIN headers \cup {key} |-> IF k = key THEN value ELSE headers[k]]

\* client.py:28 default of the timeout argument
DefaultTimeout == 120
BaseUrls == {<<"g", "w">>, <<"g", "w", "/">>, <<"g", "w", "/", "/">>}

\* str.rstrip("/")
RECURSIVE RStrip(_)
RStrip(url) ==
    IF Len(url) > 0 /\ url[Len(url)] = "/" THEN RStrip(SubSeq(url, 1, Len(url) - 1)) ELSE url

\* As NewClient, without session.headers.update
NewClient_NoHeaders(base_url, timeout) ==
    [base_url |-> RStrip(base_url), timeout |-> timeout, session |-> [headers |-> <<>>]]

\* ThroomClient.__init__
NewClient(base_url, timeout) ==
    [base_url |-> RStrip(base_url),
     timeout |-> timeout,
     session |-> [headers |-> Update(<<>>, ContentType, ApplicationJson)]]

\* The headers of a request sent through the session: the session's headers;
\* a JSON body brings its Content-Type when none is set.
PreparedHeaders(session, json) ==
    IF ~json.none /\ ContentType \notin DOMAIN session.headers
    THEN Update(session.headers, ContentType, ApplicationJson)
    ELSE session.headers

\* session.request(method=, url=, json=, params=, timeout=) as used by _request
SessionRequest(c, method, path, data, params) ==
    [method |-> method, base |-> c.base_url, path |-> path, json |-> data,
     params |-> params, headers |-> PreparedHeaders(c.session, data),
     timeout |-> c.timeout]

\* session.get(url, params=, timeout=) as used by get_logs
SessionGet(c, path, params) ==
    [method |-> "GET", base |-> c.base_url, path |-> path, json |-> NoDict,
     params |-> params, headers |-> PreparedHeaders(c.session, NoDict),
     timeout |-> c.timeout]

(***************************************************************************)
(* ThroomClient._request                                                   *)
(***************************************************************************)
NoData == Body("none", {}, <<>>, 0)

\* What the transport raises when no response arrives
TransportError(t) == IF t.kind = "timeout" THEN "Timeout" ELSE "ConnectionError"

\* error_data.get("message") or error_data.get("error") or response.text
ErrorMessage(error_data, body) ==
    IF "message" \in error_data.has THEN "message"
    ELSE IF "error" \in error_data.has THEN "error"
    ELSE Text(body)

\* The branch for status_code >= 400
ErrorBranch(t) ==
    LET parsed == IF HasContent(t.body) THEN ResponseJson(t)
                  ELSE Return(Body("object", {}, <<>>, 0))
    IN IF parsed.kind = "raise" THEN parsed
       ELSE IF parsed.value.kind # "object" THEN Raise(PyError("AttributeError"))
       ELSE Raise(ThroomAPIError(t.status, ErrorMessage(parsed.value, t.body)))

\* The body of the try block
RequestTry(t) ==
    IF t.kind # "response" THEN Raise(PyError(TransportError(t)))
    ELSE IF t.status >= 400 THEN ErrorBranch(t)
    ELSE IF HasContent(t.body) THEN ResponseJson(t)
    ELSE Return(NoData)

\* As RequestExcept, with the RequestException clause left out
RequestExcept_TimeoutOnly(r) ==
    IF r.kind # "raise" THEN r
    ELSE IF r.exc.type = "Timeout" THEN Raise(ThroomConnectionError("Request timed out"))
    ELSE r

\* The except clauses: Timeout, then RequestException
RequestExcept(r) ==
    IF r.kind # "raise" THEN r
    ELSE IF r.exc.type = "Timeout" THEN Raise(ThroomConnectionError("Request timed out"))
    ELSE IF IsRequestException(r.exc.type) THEN Raise(ThroomConnectionError("Connection error"))
    ELSE r

_request(t) == RequestExcept(RequestTry(t))

(***************************************************************************)
(* Mapping the parsed JSON into typed records                              *)
(***************************************************************************)
Typed(name) == [type |-> name]

\* X(**data): data must be a mapping holding exactly the record's fields
FromKwargs(name, data, fields) ==
    IF data.kind = "object" /\ data.has = fields THEN Return(Typed(name))
    ELSE Raise(PyError("TypeError"))

\* data[key] ... : the fields of the record are read by subscript
FromSubscript(name, data, key) ==
    IF data.kind # "object" THEN Raise(PyError("TypeError"))
    ELSE IF key \notin data.has THEN Raise(PyError("KeyError"))
    ELSE Return(Typed(name))

\* [X(...) for item in data]: a JSON array maps item by item; iterating a
\* JSON object yields its keys, which are not mappings
FromList(name, data) ==
    IF data.kind = "array" THEN Return([i \in 1..data.len |-> Typed(name)])
    ELSE IF data.kind = "object" /\ data.has = {} THEN Return(<<>>)
    ELSE Raise(PyError("TypeError"))

\* The result of a method that ignores what _request returned
Discard(r) == IF r.kind = "raise" THEN r ELSE Return(PyNone)

Then(r, name, how, arg) ==
    IF r.kind = "raise" THEN r
    ELSE CASE how = "kwargs" -> FromKwargs(name, r.value, arg)
           [] how = "subscript" -> FromSubscript(name, r.value, arg)
           [] how = "list" -> FromList(name, r.value)

(***************************************************************************)
(* Calls                                                                   *)
(***************************************************************************)
NoArgs == <<>>
ClusterNames == {"n"}

Handle(kind, cluster_id, service_name) ==
    [kind |-> kind, cluster_id |-> cluster_id, service_name |-> service_name]
\* The handles ThroomClient.cluster and ClusterClient.service/db/cache/queue return
HandlesOf(kind) ==
    {Handle(kind, c, s) : c \in ClusterIds,
                          s \in IF kind = "ServiceClient" THEN ServiceNames ELSE {""}}

ClusterPath(cluster_id) == "/api/v1/clusters/" \o cluster_id
ServicePath(cluster_id, service_name) ==
    ClusterPath(cluster_id) \o "/services/" \o service_name

\* The record of a call: what was called, the requests it sent, what came
\* back from the transport, and what the caller got
Call(op, args, requests, t, outcome) ==
    [op |-> op, args |-> args, requests |-> requests, transport |-> t, outcome |-> outcome]

\* As ViaRequest, sending the request again when no response arrived
ViaRequest_Retry(method, path, data, params, t) ==
    LET req == SessionRequest(client, method, path, data, params)
    IN [reqs |-> IF t.kind = "response" THEN <<req>> ELSE <<req, req>>,
        res |-> _request(t)]

\* A call through client._request(method, path, data, params): the one
\* session.request it makes, and what it returns or raises
ViaRequest(method, path, data, params, t) ==
    [reqs |-> <<SessionRequest(client, method, path, data, params)>>,
     res |-> _request(t)]

(***************************************************************************)
(* ThroomClient                                                            *)
(***************************************************************************)
ThroomClient_health ==
    \E t \in Transports :
        LET c == ViaRequest("GET", "/api/v1/health", NoDict, NoDict, t)
        IN /\ sent < MaxRequests
           /\ sent' = sent + Len(c.reqs)
           /\ last' = Call("health", NoArgs, c.reqs, t,
                           Then(c.res, "HealthResponse", "kwargs", {"record"}))
           /\ UNCHANGED client

list_clusters ==
    \E t \in Transports :
        LET c == ViaRequest("GET", "/api/v1/clusters", NoDict, NoDict, t)
        IN /\ sent < MaxRequests
           /\ sent' = sent + Len(c.reqs)
           /\ last' = Call("list_clusters", NoArgs, c.reqs, t,
                           Then(c.res, "Cluster", "list", {}))
           /\ UNCHANGED client

get_cluster ==
    \E cluster_id \in ClusterIds, t \in Transports :
        LET args == [cluster_id |-> cluster_id]
            c == ViaRequest("GET", ClusterPath(cluster_id), NoDict, NoDict, t)
        IN /\ sent < MaxRequests
           /\ sent' = sent + Len(c.reqs)
           /\ last' = Call("get_cluster", args, c.reqs, t,
                           Then(c.res, "Cluster", "subscript", "record"))
           /\ UNCHANGED client

\* The JSON object create_cluster builds for one ServiceConfig
ServiceObject(config) ==
    [type |-> JStr(config.type),
     port |-> JInt(config.port),
     host |-> JOptStr(config.host),
     username |-> JOptStr(config.username),
     password |-> JOptStr(config.password),
     database |-> JOptStr(config.database)]

ServicesDict(services) == [n \in DOMAIN services |-> ServiceObject(services[n])]

ServiceMaps == [ServiceNames -> ServiceConfig]

create_cluster ==
    \E name \in ClusterNames, services \in ServiceMaps, t \in Transports :
        LET args == [name |-> name, services |-> services]
            data == Dict([name |-> JStr(name), services |-> ServicesDict(services)])
            c == ViaRequest("POST", "/api/v1/clusters", data, NoDict, t)
        IN /\ sent < MaxRequests
           /\ sent' = sent + Len(c.reqs)
           /\ last' = Call("create_cluster", args, c.reqs, t,
                           Then(c.res, "CreateClusterResponse", "kwargs", {"record", "message"}))
           /\ UNCHANGED client

delete_cluster ==
    \E cluster_id \in ClusterIds, t \in Transports :
        LET args == [cluster_id |-> cluster_id]
            c == ViaRequest("DELETE", ClusterPath(cluster_id),
                            NoDict, NoDict, t)
        IN /\ sent < MaxRequests
           /\ sent' = sent + Len(c.reqs)
           /\ last' = Call("delete_cluster", args, c.reqs, t,
                           Discard(c.res))
           /\ UNCHANGED client

\* As ActivityParams, testing `filters` only
ActivityParams_AnyLimit(filters) ==
    IF filters.given THEN Dict([limit |-> filters.limit.v]) ELSE NoDict

\* {"limit": filters.limit} if filters and filters.limit else None
ActivityParams(filters) ==
    IF filters.given /\ TruthyInt(filters.limit)
    THEN Dict([limit |-> filters.limit.v])
    ELSE NoDict

\* The three get_activity methods differ in the path only
GetActivity(op, path, filters, t) ==
    LET c == ViaRequest("GET", path, NoDict, ActivityParams(filters), t)
    IN Call(op, [path |-> path, filters |-> filters], c.reqs, t,
            Then(c.res, "ActivityLog", "list", {}))

ThroomClient_get_activity ==
    \E filters \in ActivityFilters, t \in Transports :
        /\ sent < MaxRequests
        /\ last' = GetActivity("get_activity", "/api/v1/activity", filters, t)
        /\ sent' = sent + Len(last'.requests)
        /\ UNCHANGED client

\* ThroomClient.cluster
cluster ==
    \E cluster_id \in ClusterIds :
        LET h == Handle("ClusterClient", cluster_id, "")
        IN /\ last' = Call("cluster", [cluster_id |-> cluster_id],
                           <<>>, NoTransport, Return(h))
           /\ UNCHANGED <<client, sent>>

(***************************************************************************)
(* ClusterClient                                                           *)
(***************************************************************************)
ClusterClient_health ==
    \E h \in HandlesOf("ClusterClient"), t \in Transports :
        LET args == [cluster_id |-> h.cluster_id]
            c == ViaRequest("GET", ClusterPath(h.cluster_id) \o "/health", NoDict, NoDict, t)
        IN /\ sent < MaxRequests
           /\ sent' = sent + Len(c.reqs)
           /\ last' = Call("cluster.health", args, c.reqs, t,
                           Then(c.res, "ClusterHealthResponse", "subscript", "record"))
           /\ UNCHANGED client

metrics ==
    \E h \in HandlesOf("ClusterClient"), t \in Transports :
        LET args == [cluster_id |-> h.cluster_id]
            c == ViaRequest("GET", ClusterPath(h.cluster_id) \o "/metrics", NoDict, NoDict, t)
        IN /\ sent < MaxRequests
           /\ sent' = sent + Len(c.reqs)
           /\ last' = Call("metrics", args, c.reqs, t,
                           Then(c.res, "MetricsResponse", "kwargs", {"record"}))
           /\ UNCHANGED client

ClusterClient_get_activity ==
    \E h \in HandlesOf("ClusterClient"), filters \in ActivityFilters, t \in Transports :
        /\ sent < MaxRequests
        /\ last' = GetActivity("cluster.get_activity",
                               ClusterPath(h.cluster_id) \o "/activity", filters, t)
        /\ sent' = sent + Len(last'.requests)
        /\ UNCHANGED client

\* ClusterClient.service, db, cache, queue: a handle on the same client and
\* cluster
Scoped(op, kind, h, service_name) ==
    Call(op, [cluster_id |-> h.cluster_id, service_name |-> service_name], <<>>,
         NoTransport, Return(Handle(kind, h.cluster_id, service_name)))

service ==
    \E h \in HandlesOf("ClusterClient"), service_name \in ServiceNames :
        /\ last' = Scoped("service", "ServiceClient", h, service_name)
        /\ UNCHANGED <<client, sent>>

db ==
    \E h \in HandlesOf("ClusterClient") :
        /\ last' = Scoped("db", "DBClient", h, "")
        /\ UNCHANGED <<client, sent>>

cache ==
    \E h \in HandlesOf("ClusterClient") :
        /\ last' = Scoped("cache", "CacheClient", h, "")
        /\ UNCHANGED <<client, sent>>

queue ==
    \E h \in HandlesOf("ClusterClient") :
        /\ last' = Scoped("queue", "QueueClient", h, "")
        /\ UNCHANGED <<client, sent>>

(***************************************************************************)
(* ServiceClient                                                           *)
(***************************************************************************)
get_info ==
    \E h \in HandlesOf("ServiceClient"), t \in Transports :
        LET args == [cluster_id |-> h.cluster_id, service_name |-> h.service_name]
            c == ViaRequest("GET", ServicePath(h.cluster_id, h.service_name), NoDict, NoDict, t)
        IN /\ sent < MaxRequests
           /\ sent' = sent + Len(c.reqs)
           /\ last' = Call("get_info", args, c.reqs, t,
                           Then(c.res, "ServiceInfo", "kwargs", {"record"}))
           /\ UNCHANGED client

\* The params dict get_logs fills
LogParams(options) ==
    LET keys == (IF options.given /\ TruthyInt(options.tail) THEN {"tail"} ELSE {})
                \cup (IF options.given /\ options.timestamps THEN {"timestamps"} ELSE {})
    IN Dict([k \in keys |-> IF k = "tail" THEN options.tail.v ELSE "true"])

\* response.raise_for_status()
RaisesForStatus(status) == status >= 400 /\ status < 600

\* The try block of get_logs
GetLogsTry(t) ==
    IF t.kind # "response" THEN Raise(PyError(TransportError(t)))
    ELSE IF RaisesForStatus(t.status) THEN Raise(PyError("HTTPError"))
    ELSE Return(Text(t.body))

\* The except clause of get_logs: RequestException
GetLogsExcept(r) ==
    IF r.kind = "raise" /\ IsRequestException(r.exc.type)
    THEN Raise(ThroomConnectionError("Failed to get logs"))
    ELSE r

\* The request get_logs sends
GetLogsRequest(c, h, options) ==
    SessionGet(c, ServicePath(h.cluster_id, h.service_name) \o "/logs", LogParams(options))

get_logs ==
    \E h \in HandlesOf("ServiceClient"), options \in LogOptions, t \in Transports :
        LET args == [cluster_id |-> h.cluster_id, service_name |-> h.service_name,
                     options |-> options]
        IN /\ sent < MaxRequests
           /\ sent' = sent + 1
           /\ last' = Call("get_logs", args, <<GetLogsRequest(client, h, options)>>, t,
                           GetLogsExcept(GetLogsTry(t)))
           /\ UNCHANGED client

ServiceClient_get_activity ==
    \E h \in HandlesOf("ServiceClient"), filters \in ActivityFilters, t \in Transports :
        /\ sent < MaxRequests
        /\ last' = GetActivity("service.get_activity",
                               ServicePath(h.cluster_id, h.service_name) \o "/activity",
                               filters, t)
        /\ sent' = sent + Len(last'.requests)
        /\ UNCHANGED client

(***************************************************************************)
(* DBClient                                                                *)
(***************************************************************************)
SqlArgs == {<<1>>}

QueryPayload(q, args) == Dict([query |-> JStr(q), args |-> args])

\* data["rows"]
RowsOf(r) ==
    IF r.kind = "raise" THEN r
    ELSE IF r.value.kind # "object" THEN Raise(PyError("TypeError"))
    ELSE IF "rows" \notin r.value.has THEN Raise(PyError("KeyError"))
    ELSE Return(r.value.rows)

\* As FirstRow, returning rows[-1]
FirstRow_Last(rows) ==
    IF rows.kind = "raise" THEN rows
    ELSE IF rows.value = <<>> THEN Raise(PyError("ValueError"))
    ELSE Return(rows.value[Len(rows.value)])

\* query_row, after rows = self.query(query, *args)
FirstRow(rows) ==
    IF rows.kind = "raise" THEN rows
    ELSE IF rows.value = <<>> THEN Raise(PyError("ValueError"))
    ELSE Return(rows.value[1])

execute ==
    \E h \in HandlesOf("DBClient"), q \in Queries, a \in SqlArgs, t \in Transports :
        LET args == [cluster_id |-> h.cluster_id, query |-> q, args |-> a]
            c == ViaRequest("POST", ClusterPath(h.cluster_id) \o "/db/execute",
                            QueryPayload(q, a), NoDict, t)
        IN /\ sent < MaxRequests
           /\ sent' = sent + Len(c.reqs)
           /\ last' = Call("execute", args, c.reqs, t,
                           Discard(c.res))
           /\ UNCHANGED client

query ==
    \E h \in HandlesOf("DBClient"), q \in Queries, a \in SqlArgs, t \in Transports :
        LET args == [cluster_id |-> h.cluster_id, query |-> q, args |-> a]
            c == ViaRequest("POST", ClusterPath(h.cluster_id) \o "/db/query",
                            QueryPayload(q, a), NoDict, t)
        IN /\ sent < MaxRequests
           /\ sent' = sent + Len(c.reqs)
           /\ last' = Call("query", args, c.reqs, t,
                           RowsOf(c.res))
           /\ UNCHANGED client

query_row ==
    \E h \in HandlesOf("DBClient"), q \in Queries, a \in SqlArgs, t \in Transports :
        LET args == [cluster_id |-> h.cluster_id, query |-> q, args |-> a]
            c == ViaRequest("POST", ClusterPath(h.cluster_id) \o "/db/query",
                            QueryPayload(q, a), NoDict, t)
        IN /\ sent < MaxRequests
           /\ sent' = sent + Len(c.reqs)
           /\ last' = Call("query_row", args, c.reqs, t,
                           FirstRow(RowsOf(c.res)))
           /\ UNCHANGED client

(***************************************************************************)
(* CacheClient                                                             *)
(***************************************************************************)
CacheValues == {"v"}

\* data["value"]
ValueOf(r) ==
    IF r.kind = "raise" THEN r
    ELSE IF r.value.kind # "object" THEN Raise(PyError("TypeError"))
    ELSE IF "value" \notin r.value.has THEN Raise(PyError("KeyError"))
    ELSE Return("v")

\* The payload CacheClient.set builds
SetPayload(key, value, expiration) ==
    LET keys == {"key", "value"} \cup (IF ~expiration.none THEN {"expiration"} ELSE {})
    IN Dict([k \in keys |-> CASE k = "key" -> JStr(key)
                              [] k = "value" -> JStr(value)
                              [] k = "expiration" -> JInt(expiration.v)])

CacheClient_get ==
    \E h \in HandlesOf("CacheClient"), key \in Keys, t \in Transports :
        LET args == [cluster_id |-> h.cluster_id, key |-> key]
            c == ViaRequest("POST", ClusterPath(h.cluster_id) \o "/cache/get",
                            Dict([key |-> JStr(key)]), NoDict, t)
        IN /\ sent < MaxRequests
           /\ sent' = sent + Len(c.reqs)
           /\ last' = Call("cache.get", args, c.reqs, t,
                           ValueOf(c.res))
           /\ UNCHANGED client

CacheClient_set ==
    \E h \in HandlesOf("CacheClient"), key \in Keys, value \in CacheValues,
       expiration \in {NoneInt} \cup {SomeInt(n) : n \in ExpirationValues}, t \in Transports :
        LET args == [cluster_id |-> h.cluster_id, key |-> key, value |-> value,
                     expiration |-> expiration]
            c == ViaRequest("POST", ClusterPath(h.cluster_id) \o "/cache/set",
                            SetPayload(key, value, expiration), NoDict, t)
        IN /\ sent < MaxRequests
           /\ sent' = sent + Len(c.reqs)
           /\ last' = Call("cache.set", args, c.reqs, t,
                           Discard(c.res))
           /\ UNCHANGED client

CacheClient_delete ==
    \E h \in HandlesOf("CacheClient"), key \in Keys, t \in Transports :
        LET args == [cluster_id |-> h.cluster_id, key |-> key]
            c == ViaRequest("POST", ClusterPath(h.cluster_id) \o "/cache/delete",
                            Dict([key |-> JStr(key)]), NoDict, t)
        IN /\ sent < MaxRequests
           /\ sent' = sent + Len(c.reqs)
           /\ last' = Call("cache.delete", args, c.reqs, t,
                           Discard(c.res))
           /\ UNCHANGED client

(***************************************************************************)
(* QueueClient                                                             *)
(***************************************************************************)
\* A bytes object: a buffer of `len` bytes indexed from 0
BytesObject(q) == [len |-> Len(q), at |-> [i \in 0..(Len(q) - 1) |-> q[i + 1]]]
Messages == {BytesObject(q) : q \in SeqsUpTo(Bytes, MaxMsgLen)}
Handlers == {"handler"}

\* As ListOfBytes, reading the bytes as signed
ListOfBytes_Signed(message) ==
    [i \in 1..message.len |->
        IF message.at[i - 1] > 127 THEN message.at[i - 1] - 256 ELSE message.at[i - 1]]

\* list(message): iterating a bytes object yields its bytes as ints, in order
ListOfBytes(message) == [i \in 1..message.len |-> message.at[i - 1]]

PublishPayload(topic, message) ==
    Dict([topic |-> JStr(topic), message |-> ListOfBytes(message)])

publish ==
    \E h \in HandlesOf("QueueClient"), topic \in Topics, message \in Messages,
       t \in Transports :
        LET args == [cluster_id |-> h.cluster_id, topic |-> topic, message |-> message]
            c == ViaRequest("POST", ClusterPath(h.cluster_id) \o "/queue/publish",
                            PublishPayload(topic, message), NoDict, t)
        IN /\ sent < MaxRequests
           /\ sent' = sent + Len(c.reqs)
           /\ last' = Call("publish", args, c.reqs, t,
                           Discard(c.res))
           /\ UNCHANGED client

\* As subscribe, posting to the gateway before it raises
subscribe_Posts ==
    \E h \in HandlesOf("QueueClient"), topic \in Topics, handler \in Handlers,
       t \in Transports :
        LET c == ViaRequest("POST", ClusterPath(h.cluster_id) \o "/queue/subscribe",
                            Dict([topic |-> JStr(topic)]), NoDict, t)
        IN /\ sent < MaxRequests
           /\ sent' = sent + Len(c.reqs)
           /\ last' = Call("subscribe", [cluster_id |-> h.cluster_id, topic |-> topic,
                                         handler |-> handler], c.reqs, t,
                           Raise(PyError("NotImplementedError")))
           /\ UNCHANGED client

subscribe ==
    \E h \in HandlesOf("QueueClient"), topic \in Topics, handler \in Handlers :
        /\ last' = Call("subscribe", [cluster_id |-> h.cluster_id, topic |-> topic, handler |-> handler],
                        <<>>, NoTransport, Raise(PyError("NotImplementedError")))
        /\ UNCHANGED <<client, sent>>

(***************************************************************************)
(* Specification                                                           *)
(***************************************************************************)
NoCall ==
    [op |-> "", args |-> NoArgs, requests |-> <<>>, transport |-> NoTransport,
     outcome |-> Return(PyNone)]

Init ==
    /\ \E base_url \in BaseUrls : client = NewClient(base_url, DefaultTimeout)
    /\ sent = 0
    /\ last = NoCall

Next ==
    \/ ThroomClient_health
    \/ list_clusters
    \/ get_cluster
    \/ create_cluster
    \/ delete_cluster
    \/ ThroomClient_get_activity
    \/ cluster
    \/ ClusterClient_health
    \/ metrics
    \/ ClusterClient_get_activity
    \/ service
    \/ db
    \/ cache
    \/ queue
    \/ get_info
    \/ get_logs
    \/ ServiceClient_get_activity
    \/ execute
    \/ query
    \/ query_row
    \/ CacheClient_get
    \/ CacheClient_set
    \/ CacheClient_delete
    \/ publish
    \/ subscribe

Spec == Init /\ [][Next]_vars

(***************************************************************************)
(* Properties                                                              *)
(***************************************************************************)
\* The operations that go through ThroomClient._request
RequestOps ==
    {"health", "list_clusters", "get_cluster", "create_cluster", "delete_cluster",
     "get_activity", "cluster.health", "metrics", "cluster.get_activity", "get_info",
     "service.get_activity", "execute", "query", "query_row", "cache.get", "cache.set",
     "cache.delete", "publish"}
NetworkOps == RequestOps \cup {"get_logs"}
ActivityOps == {"get_activity", "cluster.get_activity", "service.get_activity"}
OptionalFields == {"host", "username", "password", "database"}

GotResponse == last.transport.kind = "response"
Raised(type) == last.outcome.kind = "raise" /\ last.outcome.exc.type = type

\* C1: in the body create_cluster posts, each service's object holds an
\* optional field (host, username, password, database) only if the caller
\* set it; an unset field is absent and no field is sent as null.
C1_UnsetFieldsOmitted ==
    last.op = "create_cluster" =>
        \A n \in DOMAIN last.args.services, f \in OptionalFields :
            LET config == last.args.services[n]
                object == last.requests[1].json.d.services[n]
            IN /\ config[f].none => f \notin DOMAIN object
               /\ f \in DOMAIN object => object[f] # JNull

\* C2: for every operation through _request, a response with status >= 400
\* makes the call raise ThroomAPIError carrying that status, whatever the
\* body is.
C2_ErrorStatusRaisesAPIError ==
    (last.op \in RequestOps /\ GotResponse /\ last.transport.status >= 400) =>
        /\ Raised("ThroomAPIError")
        /\ last.outcome.exc.status_code = last.transport.status

\* C3: a network operation raises ThroomConnectionError only when no HTTP
\* response was received.
C3_ConnectionErrorOnlyWithoutResponse ==
    (last.op \in NetworkOps /\ Raised("ThroomConnectionError")) => ~GotResponse

\* C4: a network operation whose request times out or fails at transport
\* level raises ThroomConnectionError, not ThroomAPIError and not the HTTP
\* library's exception.
C4_TransportFailureRaisesConnectionError ==
    (last.op \in NetworkOps /\ last.transport.kind \in {"timeout", "error"}) =>
        Raised("ThroomConnectionError")

C4_Witness ==
    /\ last.op = "query"
    /\ last.transport.kind = "timeout"
    /\ Raised("ThroomConnectionError")

\* C5: query_row sends exactly one request, to the db/query endpoint; on a
\* response with zero rows it raises an error that carries no status code,
\* on a response with rows it returns the first row of the response.
C5_QueryRow ==
    last.op = "query_row" =>
        /\ Len(last.requests) = 1
        /\ last.requests[1].method = "POST"
        /\ last.requests[1].path = ClusterPath(last.args.cluster_id) \o "/db/query"
        /\ (GotResponse /\ last.transport.status < 400
              /\ last.transport.body.kind = "object" /\ "rows" \in last.transport.body.has) =>
             IF Len(last.transport.body.rows) = 0
             THEN /\ Raised("ValueError")
                  /\ ~last.outcome.exc.has_status
             ELSE /\ last.outcome.kind = "return"
                  /\ last.outcome.value = last.transport.body.rows[1]

C5_Witness ==
    /\ last.op = "query_row"
    /\ GotResponse /\ last.transport.status = 200
    /\ Len(last.transport.body.rows) = 2
    /\ last.outcome.kind = "return"
    /\ last.outcome.value = [id |-> 1]

\* C6: the payload of CacheClient.set has an `expiration` field only if a
\* positive expiration was supplied; otherwise it is exactly {key, value}.
C6_ExpirationOnlyIfPositive ==
    last.op = "cache.set" =>
        LET payload == last.requests[1].json.d
            positive == ~last.args.expiration.none /\ last.args.expiration.v > 0
        IN /\ "expiration" \in DOMAIN payload => positive
           /\ ~positive => DOMAIN payload = {"key", "value"}

HasJsonContentType(req) ==
    ContentType \in DOMAIN req.headers /\ req.headers[ContentType] = ApplicationJson

\* C7 as stated: every request carries Content-Type: application/json, except
\* the GET of get_logs, which carries no Content-Type header.
C7_ContentTypeExceptLogs ==
    \A i \in 1..Len(last.requests) :
        IF last.op = "get_logs"
        THEN ContentType \notin DOMAIN last.requests[i].headers
        ELSE HasJsonContentType(last.requests[i])

\* C7: every request the client sends, the GET of get_logs included, carries
\* Content-Type: application/json.
C7_ContentTypeOnEveryRequest ==
    \A i \in 1..Len(last.requests) : HasJsonContentType(last.requests[i])

C7_Witness ==
    /\ last.op = "get_logs"
    /\ Len(last.requests) = 1
    /\ HasJsonContentType(last.requests[1])

\* C8: each get_activity sends no `limit` parameter when filters is absent
\* or its limit is None or 0, and sends limit = filters.limit when the limit
\* is positive.
C8_ActivityLimit ==
    last.op \in ActivityOps =>
        LET filters == last.args.filters
            params == last.requests[1].params
        IN /\ (~filters.given \/ filters.limit.none \/ filters.limit.v = 0) =>
                "limit" \notin DOMAIN params.d
           /\ (filters.given /\ ~filters.limit.none /\ filters.limit.v > 0) =>
                /\ "limit" \in DOMAIN params.d
                /\ params.d["limit"] = filters.limit.v

C8_Witness ==
    /\ last.op = "service.get_activity"
    /\ last.args.filters.given
    /\ last.args.filters.limit = SomeInt(7)
    /\ last.requests[1].params = Dict([limit |-> 7])

\* C9: a call of subscribe raises NotImplementedError and sends nothing: the
\* number of requests sent is the same before and after the call.
C9_SubscribeSendsNothing ==
    [][last'.op = "subscribe" =>
         /\ sent' = sent
         /\ last'.requests = <<>>
         /\ last'.outcome = Raise(PyError("NotImplementedError"))]_vars

C9_Witness ==
    /\ last.op = "subscribe"
    /\ Raised("NotImplementedError")
    /\ sent >= 1

\* C10: the `message` field publish sends is the sequence of the bytes of
\* the input, as integers in 0..255, of the same length and in order.
C10_PublishBytes ==
    last.op = "publish" =>
        LET message == last.args.message
            sent_message == last.requests[1].json.d.message
        IN /\ DOMAIN sent_message = 1..message.len
           /\ \A i \in 1..message.len :
                /\ sent_message[i] \in 0..255
                /\ sent_message[i] = message.at[i - 1]

C10_Witness ==
    /\ last.op = "publish"
    /\ last.args.message = BytesObject(<<255, 0>>)
    /\ last.requests[1].json.d.message = <<255, 0>>

ConstructorOps == {"cluster", "service", "db", "cache", "queue"}

\* C11: every call of a network operation sends exactly one HTTP request,
\* whether it returns or raises (a failed call is not retried and raises one
\* error); the scoped-client constructors cluster, service, db, cache and
\* queue send none.
C11_OneRequestPerCall ==
    [][/\ last'.op \in NetworkOps =>
            /\ sent' = sent + 1
            /\ Len(last'.requests) = 1
            /\ last'.outcome.kind \in {"return", "raise"}
            /\ last'.outcome.kind = "raise" <=> last'.outcome.exc # NoExc
       /\ last'.op \in ConstructorOps =>
            /\ sent' = sent
            /\ last'.requests = <<>>
            /\ last'.outcome.kind = "return"]_vars

C11_Witness ==
    /\ last.op = "delete_cluster"
    /\ last.transport.kind = "timeout"
    /\ Raised("ThroomConnectionError")
    /\ Len(last.requests) = 1
    /\ sent = 2

====
